---- MODULE Spec2Model ----
(***************************************************************************)
(* UserActivityStreamProcessor (streaming/user_activity_stream.py).        *)
(*                                                                         *)
(* run() starts four Spark Structured Streaming queries over one Kafka     *)
(* topic.  Every query has its own checkpoint directory (offset log,       *)
(* commit log, state store) and its own micro-batch loop; the queries      *)
(* share nothing but the read-only input topic.  A behaviour of this       *)
(* module follows ONE of the four queries, chosen in Init, through         *)
(* micro-batches, sink calls, process death and restart.  The engine       *)
(* steps (offset log, commit log, watermark, state versions, window        *)
(* assignment) are those of Spark 3.1.2, the version the source pins.      *)
(***************************************************************************)
EXTENDS Integers, Sequences, FiniteSets, TLC

\* ------------------------------------------------------------------ bounds
MaxEvents == 3      \* events ever produced to the input topic
MaxCrashes == 1     \* process deaths in one behaviour
MaxFailures == 1    \* sink calls that raise in one behaviour
MaxTime == 15       \* the largest event time (minutes)
NumPartitions == 2  \* partitions of the input topic
MaxCustomers == 2   \* customer ids in the sources of the customer pipeline
MaxRows == 1        \* rows in one source of the customer pipeline
MaxTransactions == 2 \* transaction ids in the source of the sales pipeline

\* ------------------------------------------------- constants of the source
WindowMinutes == 5      \* window(col("timestamp"), "5 minutes")
DelayMinutes == 10      \* withWatermark("timestamp", "10 minutes")
CountTtl == 86400       \* expire(user_activity:count:*, 86400)
UsersTtl == 3600        \* expire(user_activity:active_users, 3600)
StartTime == 0          \* window() is called without startTime

NULL == "null"

\* The null of the timestamp column, and a timestamp text that is no time.
NullTime == -1
BadTime == -2

\* A run() that also starts a query for each of the other two aggregates.
Queries_EveryAggregate ==
    {"raw_events", "active_users", "page_views", "redis_kafka", "product_views", "add_to_cart"}

\* The queries run() starts.
Queries == {"raw_events", "active_users", "page_views", "redis_kafka"}
Windowed == {"active_users", "page_views"}

\* Every query appends to one and the same table.
table_name_Shared(q) == "user_activity_events"

\* The Snowflake table each query appends to; the cache/republish query has
\* none.
table_name(q) ==
    CASE q = "raw_events" -> "user_activity_events"
      [] q = "active_users" -> "active_users_by_window"
      [] q = "page_views" -> "page_views_by_window"
      [] OTHER -> NULL

\* The checkpoint location of each query: its offset log, commit log and
\* state store (with the watermark and the batch ids) live under it.
checkpoint_location(q) ==
    CASE q = "raw_events" -> "/tmp/checkpoints/user_activity/raw_events"
      [] q = "active_users" -> "/tmp/checkpoints/user_activity/active_users"
      [] q = "page_views" -> "/tmp/checkpoints/user_activity/page_views"
      [] OTHER -> "/tmp/checkpoints/user_activity/redis_kafka"

\* The input partition of the i-th record read.  The source subscribes to
\* the whole topic, so a batch holds records of every partition; records
\* are taken here to arrive from the partitions in turn.
PartitionOf(i) == (i - 1) % NumPartitions

\* Event times: the last instant of the first window, the boundary where the
\* second window starts, and a time far enough ahead to move the watermark
\* past the first window.
Times == {WindowMinutes - 1, WindowMinutes, MaxTime}

\* Timestamps a query is fed.  Only the windowed queries read the time, so
\* only they are fed different times and values without one; every query is
\* fed a timestamp that cannot be parsed, which costs a value all its fields.
TimesFor(q) == (IF q \in Windowed THEN Times \cup {NullTime} ELSE {MaxTime}) \cup {BadTime}

\* Event types a query is fed.  The type other, which no type-specific metric
\* takes in, is fed to the windowed queries.
TypesFor(q) ==
    {NULL, "page_view", "product_view"} \cup (IF q \in Windowed THEN {"other"} ELSE {})

\* The JSON values on the topic, by the fields of define_schema the job
\* reads: an absent field is NULL (NullTime for the timestamp), and the
\* timestamp may be a text that is no time.  Only page views with user_id
\* vary in time; the other values carry MaxTime, the time at which they would
\* matter most to the watermark.
Events(q) ==
    {e \in [user_id : {NULL, "u1"}, event_type : TypesFor(q),
            page : {"/home"}, product_id : {"p1"}, timestamp : TimesFor(q)] :
        /\ (e.event_type # "page_view" \/ e.user_id = NULL) => e.timestamp = MaxTime
        /\ ~(e.user_id = NULL /\ e.event_type # "page_view")}

NullRow ==
    [user_id |-> NULL, event_type |-> NULL, page |-> NULL, product_id |-> NULL,
     timestamp |-> NullTime]

\* A parser that nulls the one field it could not convert.
from_json_Partial(v) == IF v.timestamp = BadTime THEN [v EXCEPT !.timestamp = NullTime] ELSE v

\* from_json(col("value"), schema): an absent field is null; a value with a
\* field that cannot be converted to its type is a bad record, and every
\* field of a bad record is null (PERMISSIVE mode of the pinned Spark).
from_json(v) == IF v.timestamp = BadTime THEN NullRow ELSE v

VARIABLES
    topic,          \* the Kafka input topic: a sequence of JSON values, offsets 1..Len
    query,          \* which of the four queries of run() this behaviour follows
    pc,             \* position of the query's micro-batch loop
    currentBatchId, \* MicroBatchExecution.currentBatchId
    offsetLog,      \* checkpoint: batch id -> [end offset, batch watermark]
    commitLog,      \* checkpoint: batch id -> watermark for the next batch
    watermark,      \* the in-memory watermark tracker (minutes)
    lastExec,       \* watermark of the last batch executed by this process, -1 if none
    lastMax,        \* largest event time the watermark operator saw in the last batch, -1 if none
    stateStore,     \* checkpoint: state version -> (group key, window start) -> count
    snowflake,      \* rows the Snowflake sink received, in order
    redis,          \* the Redis keys update_redis_metrics writes
    kafka_out,      \* records sent to KAFKA_OUTPUT_TOPIC, in order
    output,         \* rows the running batch hands to the Snowflake sink
    crashes,        \* process deaths so far
    failures,       \* sink calls that raised so far
    sinkOk,         \* history: sink -> batch ids for which the sink call raised nothing
    attempts,       \* history: the calls of the two sink methods, [sink, batch_id, ok], in order
    error_log,      \* the messages written with logger.error, in order
    now,            \* the wall clock as forward_to_kafka last read it (ticks)
    incrApplied,    \* history: <<batch id, counter key>> pairs whose INCRBY was executed
    applied,        \* history: [o, k] an input offset and the state key it was counted in
    late_dropped,   \* late-dropped counter: no statement of the source updates one
    rejected,       \* rejected-event counter: no statement of the source updates one
    dead_letter,    \* dead-lettered batches: no statement of the source records one
    customers,      \* customer pipeline: the PostgreSQL table customers
    contacts,       \* customer pipeline: the Salesforce Contact records
    s3_bucket,      \* customer pipeline: the files under the S3 prefix
    customer_data_staging, \* customer pipeline: staging.customer_data_staging
    customer_data,  \* customer pipeline: dwh.customer_data, customer_id -> row
    cdp_pc,         \* customer pipeline: the stage run() is about to call
    postgres_df,    \* customer pipeline: locals of run()
    salesforce_df,
    s3_df,
    transformed_df,
    cdp_result,     \* customer pipeline: what run() returned
    cdp_log,        \* customer pipeline: the messages written with logger.error
    cdp_stages,     \* history: the stages run() has called, in order
    sales_transactions, \* sales pipeline: the joined PostgreSQL sales rows
    products,       \* sales pipeline: dwh.products, product_id -> category
    segments,       \* sales pipeline: dwh.customer_data, customer_id -> segment
    analytics,      \* sales pipeline: the four analytics tables, name -> rows
    sap_pc,         \* sales pipeline: the statement run() is about to execute
    sales_df,       \* sales pipeline: locals of run()
    product_df,
    customer_df,
    analysis_results,
    spark_stops,    \* sales pipeline: calls of spark.stop() so far
    actions_after_stop, \* history: Spark actions called on the stopped session
    sap_result,     \* sales pipeline: what run() returned
    sap_log,        \* sales pipeline: the messages written with logger.error
    sap_stages      \* history: the stages run() has called, in order

\* parsed_df: the row parsed from the value at offset i.
Row(i) == from_json(topic[i])

vars == <<topic, query, pc, currentBatchId, offsetLog, commitLog, watermark, lastExec,
          lastMax, stateStore, output, snowflake, redis, kafka_out, crashes, failures, sinkOk,
          attempts, error_log, now, incrApplied, applied, late_dropped, rejected,
          dead_letter, customers, contacts, s3_bucket, customer_data_staging, customer_data,
          cdp_pc, postgres_df, salesforce_df, s3_df, transformed_df, cdp_result, cdp_log,
          cdp_stages, sales_transactions, products, segments, analytics, sap_pc, sales_df,
          product_df, customer_df, analysis_results, spark_stops, actions_after_stop,
          sap_result, sap_log, sap_stages>>

engine == <<currentBatchId, offsetLog, commitLog, watermark, lastExec, lastMax, stateStore, output>>
sinks == <<snowflake, redis, kafka_out>>
history == <<sinkOk, incrApplied, applied>>
logs == <<attempts, error_log, now>>
counters == <<late_dropped, rejected, dead_letter>>
faults == <<crashes, failures>>

\* The streaming job's variables, and those of the two batch pipelines.
stream == <<topic, query, pc, engine, sinks, faults, history, logs, counters>>
cdp_sources == <<customers, contacts, s3_bucket>>
cdp_warehouse == <<customer_data_staging, customer_data>>
cdp_locals == <<postgres_df, salesforce_df, s3_df, transformed_df>>
cdp == <<cdp_sources, cdp_warehouse, cdp_locals, cdp_pc, cdp_result, cdp_log, cdp_stages>>
sap_sources == <<sales_transactions, products, segments>>
sap_locals == <<sales_df, product_df, customer_df, analysis_results>>
sap_spark == <<spark_stops, actions_after_stop>>
sap == <<sap_sources, analytics, sap_locals, sap_spark, sap_pc, sap_result, sap_log, sap_stages>>
etl == <<cdp, sap>>

\* ------------------------------------------------------------- helpers
Max(S) == CHOOSE x \in S : \A y \in S : y <= x

Range(f) == {f[x] : x \in DOMAIN f}

\* The latest batch id of a log, -1 when the log is empty (getLatest()).
Latest(log) == IF DOMAIN log = {} THEN -1 ELSE Max(DOMAIN log)

EmptyLog == [b \in {} |-> 0]

\* ----------------------------------------------------------- the batch
\* Offsets of batch b: from the end of batch b-1 (startingOffsets "latest" on
\* an empty topic for batch 0) to the end recorded in the offset log.
BatchStart(b) == IF b = 0 THEN 0 ELSE offsetLog[b - 1].end

BatchOffsets(b) == (BatchStart(b) + 1) .. offsetLog[b].end

\* A filter that tests user_id alone.
Valid_UserOnly(e) == e.user_id # NULL

\* valid_events: the filter of process_events.
Valid(e) == e.user_id # NULL /\ e.event_type # NULL

\* A batch that is given up at its first invalid row: only the valid rows in
\* front of it pass.
ValidOffsets_StopAtInvalid(b) ==
    {i \in BatchOffsets(b) :
        Valid(Row(i)) /\ \A j \in BatchOffsets(b) : j < i => Valid(Row(j))}

\* Offsets of batch b that pass the valid_events filter, in topic order.
ValidOffsets(b) == {i \in BatchOffsets(b) : Valid(Row(i))}

\* ---------------------------------------------------------------- Init
EmptyRedis ==
    [count |-> [t \in {} |-> 0], users |-> {}, pages |-> [p \in {} |-> 0],
     products |-> [p \in {} |-> 0], ttl |-> [k \in {} |-> 0]]

\* The streaming job's variables other than the query followed and the
\* position of its loop.
StreamVarsInit ==
    /\ topic = <<>>
    /\ currentBatchId = 0
    /\ offsetLog = EmptyLog
    /\ commitLog = EmptyLog
    /\ watermark = 0
    /\ lastExec = -1
    /\ lastMax = -1
    /\ stateStore = (0 :> [k \in {} |-> 0])
    /\ output = {}
    /\ snowflake = <<>>
    /\ redis = EmptyRedis
    /\ kafka_out = <<>>
    /\ crashes = 0
    /\ failures = 0
    /\ sinkOk = [s \in {"redis", "kafka"} |-> {}]
    /\ attempts = <<>>
    /\ error_log = <<>>
    /\ now = 0
    /\ incrApplied = {}
    /\ applied = {}
    /\ late_dropped = 0
    /\ rejected = 0
    /\ dead_letter = {}

\* The streaming job is not running.
StreamOff == StreamVarsInit /\ query = NULL /\ pc = "off"

\* The customer pipeline is not running.
CustomerOff ==
    /\ customers = <<>> /\ contacts = <<>> /\ s3_bucket = {}
    /\ customer_data_staging = <<>> /\ customer_data = <<>>
    /\ cdp_pc = "off"
    /\ postgres_df = <<>> /\ salesforce_df = <<>> /\ s3_df = <<>> /\ transformed_df = <<>>
    /\ cdp_result = [status |-> "none", error |-> "", records_processed |-> 0]
    /\ cdp_log = <<>> /\ cdp_stages = <<>>

\* The sales pipeline is not running.
SalesOff ==
    /\ sales_transactions = {} /\ products = <<>> /\ segments = <<>>
    /\ analytics = <<>>
    /\ sap_pc = "off"
    /\ sales_df = {} /\ product_df = <<>> /\ customer_df = <<>> /\ analysis_results = <<>>
    /\ spark_stops = 0 /\ actions_after_stop = 0
    /\ sap_result = [status |-> "none", error |-> "", records_processed |-> 0]
    /\ sap_log = <<>> /\ sap_stages = <<>>

Init ==
    /\ StreamVarsInit
    /\ query \in Queries
    /\ pc = "idle"
    /\ CustomerOff
    /\ SalesOff

\* A producer appends one row to the input topic.
Produce ==
    /\ Len(topic) < MaxEvents
    /\ pc \in {"idle", "down"}
    /\ \E e \in Events(query) : topic' = Append(topic, e)
    /\ UNCHANGED <<query, pc, engine, sinks, faults, history, logs, counters, etl>>

\* ---------------------------------------------- the micro-batch engine
\* isNewDataAvailable: the topic holds rows past the last planned batch.
NewData == BatchStart(currentBatchId) < Len(topic)

\* lastExecution.shouldRunAnotherBatch: a stateful query runs a batch without
\* new data when the watermark moved past the one its last batch ran with.
ShouldRunAnotherBatch == query \in Windowed /\ lastExec # -1 /\ watermark > lastExec

\* constructNextBatch: the batch's end offset and watermark go to the offset
\* log before the batch runs.
constructNextBatch ==
    /\ pc = "idle"
    /\ NewData \/ ShouldRunAnotherBatch
    /\ offsetLog' = (currentBatchId :> [end |-> Len(topic), wm |-> watermark]) @@ offsetLog
    /\ pc' = "run"
    /\ UNCHANGED <<topic, query, currentBatchId, commitLog, watermark, lastExec, lastMax,
                   stateStore, output, sinks, faults, history, logs, counters, etl>>

\* A tracker that follows the last batch instead of the maximum.
UpdateWatermark_NoMax(wm, mx) == IF mx # -1 THEN mx - DelayMinutes ELSE wm

\* WatermarkTracker.updateWatermark: the watermark moves to (largest event
\* time of the batch - delay) only when that is later than it already is.
UpdateWatermark(wm, mx) == IF mx # -1 /\ mx - DelayMinutes > wm THEN mx - DelayMinutes ELSE wm

\* The end of runBatch: update the watermark, write the commit log, move on.
commitBatch ==
    /\ pc = "commit"
    /\ watermark' = UpdateWatermark(watermark, lastMax)
    /\ commitLog' = (currentBatchId :> watermark') @@ commitLog
    /\ lastExec' = offsetLog[currentBatchId].wm
    /\ currentBatchId' = currentBatchId + 1
    /\ output' = {}
    /\ pc' = "idle"
    /\ UNCHANGED <<topic, query, offsetLog, lastMax, stateStore, sinks, faults,
                   history, logs, counters, etl>>

\* A failed commit that is passed over: the loop goes on with the next batch.
commitFailure_Continue(b) == [pc |-> "idle", batch |-> b + 1]

\* Where the loop stands after the commit log write of batch b has raised: the
\* query terminates with the exception, awaitAnyTermination raises it in
\* run(), and run() logs the error and stops Spark.
commitFailure(b) == [pc |-> "down", batch |-> b]

\* Writing the commit log of the running batch fails.  The batch stays
\* planned and uncommitted in the checkpoint; what was in memory is gone.
commitFails ==
    /\ pc = "commit"
    /\ crashes < MaxCrashes
    /\ crashes' = crashes + 1
    /\ error_log' = Append(error_log, "Error in stream processing")
    /\ pc' = commitFailure(currentBatchId).pc
    /\ currentBatchId' = commitFailure(currentBatchId).batch
    /\ watermark' = 0
    /\ lastExec' = -1
    /\ lastMax' = -1
    /\ output' = {}
    /\ UNCHANGED <<topic, query, offsetLog, commitLog, stateStore, sinks, failures,
                   history, attempts, now, counters, etl>>

\* The process dies or is shut down (or another query fails: run() logs and
\* stops Spark).  spark.streaming.stopGracefullyOnShutdown is a setting of
\* DStream contexts, and the job has none: a shutdown interrupts the running
\* batch where it stands.  What was in memory is gone; the checkpoint
\* directory and the sinks stay.
Crash ==
    /\ pc # "down"
    /\ crashes < MaxCrashes
    /\ crashes' = crashes + 1
    /\ pc' = "down"
    /\ watermark' = 0
    /\ lastExec' = -1
    /\ lastMax' = -1
    /\ output' = {}
    /\ UNCHANGED <<topic, query, currentBatchId, offsetLog, commitLog, stateStore,
                   sinks, failures, history, logs, counters, etl>>

\* A restart that runs the latest planned batch again, committed or not.
RestartBatchId_Rerun(lo, lc) == IF lo = -1 THEN 0 ELSE lo

\* A restart that always moves past the latest planned batch.
RestartBatchId_Skip(lo, lc) == lo + 1

\* populateStartOffsets: the batch to run first after a start, from the latest
\* ids of the offset log (lo) and the commit log (lc), -1 for an empty log.
RestartBatchId(lo, lc) == IF lo = -1 THEN 0 ELSE IF lc = lo THEN lc + 1 ELSE lo

\* populateStartOffsets: the watermark restored from the checkpoint.
RestartWatermark(lo, lc) ==
    IF lo = -1 THEN 0
    ELSE IF lc = lo THEN Max({offsetLog[lo].wm, commitLog[lc]})
    ELSE offsetLog[lo].wm

\* run() is started again on the same checkpointLocation.
Restart ==
    /\ pc = "down"
    /\ LET lo == Latest(offsetLog)
           lc == Latest(commitLog)
       IN  /\ currentBatchId' = RestartBatchId(lo, lc)
           /\ watermark' = RestartWatermark(lo, lc)
           /\ pc' = IF lo # -1 /\ lc # lo THEN "run" ELSE "idle"
    /\ UNCHANGED <<topic, query, offsetLog, commitLog, lastExec, lastMax, stateStore,
                   output, sinks, faults, history, logs, counters, etl>>

\* ------------------------------------------------- update_redis_metrics
\* pandas groupby(...).size().to_dict() yields its groups in sorted key order.
TypeOrder == <<"other", "page_view", "product_view">>
PageOrder == <<"/home">>
ProductOrder == <<"p1">>

EventCounts(b, t) == Cardinality({i \in ValidOffsets(b) : Row(i).event_type = t})

PageCounts(b, p) ==
    Cardinality({i \in ValidOffsets(b) :
                    Row(i).event_type = "page_view" /\ Row(i).page = p})

ProductCounts(b, p) ==
    Cardinality({i \in ValidOffsets(b) :
                    Row(i).event_type = "product_view" /\ Row(i).product_id = p})

UserIds(b) == {Row(i).user_id : i \in ValidOffsets(b)}

Cmd(op, key, member, arg) == [op |-> op, key |-> key, member |-> member, arg |-> arg]

RECURSIVE CounterCmds(_, _)
CounterCmds(b, n) ==
    IF n = 0 THEN <<>>
    ELSE CounterCmds(b, n - 1) \o
         (IF EventCounts(b, TypeOrder[n]) > 0
          THEN <<Cmd("incrby", "count", TypeOrder[n], EventCounts(b, TypeOrder[n])),
                 Cmd("expire", "count", TypeOrder[n], CountTtl)>>
          ELSE <<>>)

UserCmds(b) ==
    IF UserIds(b) # {}
    THEN <<Cmd("sadd", "active_users", NULL, UserIds(b)),
           Cmd("expire", "active_users", NULL, UsersTtl)>>
    ELSE <<>>

RECURSIVE PageCmds(_, _)
PageCmds(b, n) ==
    IF n = 0 THEN <<>>
    ELSE PageCmds(b, n - 1) \o
         (IF PageCounts(b, PageOrder[n]) > 0
          THEN <<Cmd("zincrby", "popular_pages", PageOrder[n], PageCounts(b, PageOrder[n]))>>
          ELSE <<>>)

RECURSIVE ProductCmds(_, _)
ProductCmds(b, n) ==
    IF n = 0 THEN <<>>
    ELSE ProductCmds(b, n - 1) \o
         (IF ProductCounts(b, ProductOrder[n]) > 0
          THEN <<Cmd("zincrby", "popular_products", ProductOrder[n],
                     ProductCounts(b, ProductOrder[n]))>>
          ELSE <<>>)

\* An update that writes the rankings before the counters and the set.
RedisCommands_RankingsFirst(b) ==
    PageCmds(b, Len(PageOrder)) \o ProductCmds(b, Len(ProductOrder))
        \o CounterCmds(b, Len(TypeOrder)) \o UserCmds(b)

\* The Redis calls update_redis_metrics makes for batch b, in program order.
RedisCommands(b) ==
    CounterCmds(b, Len(TypeOrder)) \o UserCmds(b) \o PageCmds(b, Len(PageOrder))
        \o ProductCmds(b, Len(ProductOrder))

Incr(f, k, n) == IF k \in DOMAIN f THEN [f EXCEPT ![k] = @ + n] ELSE (k :> n) @@ f

\* One Redis call on the keys r.
ApplyCmd(r, c) ==
    CASE c.op = "incrby" -> [r EXCEPT !.count = Incr(@, c.member, c.arg)]
      [] c.op = "expire" -> [r EXCEPT !.ttl = (<<c.key, c.member>> :> c.arg) @@ @]
      [] c.op = "sadd" -> [r EXCEPT !.users = @ \cup c.arg]
      [] c.op = "zincrby" /\ c.key = "popular_pages" ->
            [r EXCEPT !.pages = Incr(@, c.member, c.arg)]
      [] c.op = "zincrby" /\ c.key = "popular_products" ->
            [r EXCEPT !.products = Incr(@, c.member, c.arg)]

\* The first n calls of cmds, applied in order.
RECURSIVE ApplyCmds(_, _, _)
ApplyCmds(r, cmds, n) == IF n = 0 THEN r ELSE ApplyCmd(ApplyCmds(r, cmds, n - 1), cmds[n])

\* A process_batch that gives the batch up when the Redis update failed.
process_batch_StopOnError(redis_ok) == IF redis_ok THEN "fwd" ELSE "commit"

\* process_batch: forward_to_kafka is called after update_redis_metrics has
\* returned, and update_redis_metrics returns whether or not a call raised.
process_batch(redis_ok) == "fwd"

\* update_redis_metrics(batch_df, batch_id).  A Redis call (or toPandas) may
\* raise: the calls before it stay applied, the except clause logs, and the
\* method returns normally either way.
update_redis_metrics ==
    /\ pc = "run"
    /\ query = "redis_kafka"
    /\ LET b == currentBatchId
           cmds == RedisCommands(b)
       IN  \E ok \in BOOLEAN, n \in 0 .. Len(cmds) :
              /\ ok => n = Len(cmds)
              /\ ~ok => (n < Len(cmds) \/ Len(cmds) = 0)
              /\ ~ok => failures < MaxFailures
              /\ failures' = IF ok THEN failures ELSE failures + 1
              /\ redis' = ApplyCmds(redis, cmds, n)
              /\ incrApplied' = incrApplied \cup
                    {<<b, cmds[j].member>> : j \in {j \in 1 .. n : cmds[j].op = "incrby"}}
              /\ sinkOk' = IF ok THEN [sinkOk EXCEPT !["redis"] = @ \cup {b}] ELSE sinkOk
              /\ attempts' = Append(attempts, [sink |-> "redis", batch_id |-> b, ok |-> ok])
              /\ error_log' = IF ok THEN error_log
                               ELSE Append(error_log, "Error updating Redis metrics")
              /\ pc' = process_batch(ok)
    /\ UNCHANGED <<topic, query, engine, snowflake, kafka_out, crashes, applied, now,
                   counters, etl>>

\* ----------------------------------------------------- forward_to_kafka
\* The elements of a finite set of integers in increasing order.
RECURSIVE Sorted(_)
Sorted(S) == IF S = {} THEN <<>> ELSE Append(Sorted(S \ {Max(S)}), Max(S))

\* str(n) of a natural number: its decimal digits.
Digits == <<"0", "1", "2", "3", "4", "5", "6", "7", "8", "9">>

RECURSIVE str(_)
str(n) == IF n < 10 THEN Digits[n + 1] ELSE str(n \div 10) \o Digits[(n % 10) + 1]

\* isoformat() of a clock reading: the text of the time; later readings give
\* other texts.
isoformat(t) == str(t)

\* An event tagged with the time of processing in place of the batch id.
event_TaggedWithTime(i, b, t) ==
    [offset |-> i, batch_id |-> str(t), processed_at |-> isoformat(t)]

\* The record sent for the row at offset i of batch b at clock reading t: the
\* row (the offset stands for it and its event_id) with the processing
\* metadata added.
event(i, b, t) == [offset |-> i, batch_id |-> str(b), processed_at |-> isoformat(t)]

\* forward_to_kafka(batch_df, batch_id): one record per row, tagged with the
\* batch id and the time read for that row.  A send (or toPandas) may raise:
\* the rows already sent stay sent, the except clause logs, and the method
\* returns normally either way.
forward_to_kafka ==
    /\ pc = "fwd"
    /\ query = "redis_kafka"
    /\ LET b == currentBatchId
           rows == Sorted(ValidOffsets(b))
       IN  \E ok \in BOOLEAN, n \in 0 .. Len(rows) :
              /\ ok => n = Len(rows)
              /\ ~ok => (n < Len(rows) \/ Len(rows) = 0)
              /\ ~ok => failures < MaxFailures
              /\ failures' = IF ok THEN failures ELSE failures + 1
              /\ kafka_out' = kafka_out \o [j \in 1 .. n |-> event(rows[j], b, now + j)]
              /\ now' = now + n
              /\ sinkOk' = IF ok THEN [sinkOk EXCEPT !["kafka"] = @ \cup {b}] ELSE sinkOk
              /\ attempts' = Append(attempts, [sink |-> "kafka", batch_id |-> b, ok |-> ok])
              /\ error_log' = IF ok THEN error_log
                               ELSE Append(error_log, "Error forwarding to Kafka")
    /\ pc' = "commit"
    /\ UNCHANGED <<topic, query, engine, snowflake, redis, crashes, incrApplied, applied,
                   counters, etl>>

\* ----------------------------------------- process_events: the windows
\* The windowed aggregates process_events defines.  run() starts a query for
\* the first two only; the other two are never computed.
Metrics == {"active_users", "page_views", "product_views", "add_to_cart"}

\* Aggregates without a filter on the event type.
Feeds_All(q, e) == TRUE

\* The filter in front of each windowed aggregate.
Feeds(q, e) ==
    CASE q = "page_views" -> e.event_type = "page_view"
      [] q = "product_views" -> e.event_type = "product_view"
      [] q = "add_to_cart" -> e.event_type = "add_to_cart"
      [] OTHER -> TRUE

\* The grouping column beside the window.
GroupKey(q, e) ==
    CASE q = "page_views" -> e.page
      [] q \in {"product_views", "add_to_cart"} -> e.product_id
      [] OTHER -> e.event_type

\* Ceil(a / d) for a >= 0, d > 0.
CeilDiv(a, d) == CHOOSE k \in 0 .. a + 1 : k * d >= a /\ (k - 1) * d < a

\* A window assignment without the rule for a time on a boundary.
TimeWindow_CeilOnly(t) ==
    LET windowStart == (CeilDiv(t - StartTime, WindowMinutes) - 1) * WindowMinutes + StartTime
    IN  [start |-> windowStart, end |-> windowStart + WindowMinutes]

\* window(col("timestamp"), "5 minutes"): the one tumbling window of a row,
\* as TimeWindowing computes it.  A time that is a multiple of the slide is
\* the start of a window (windowId = ceil + 1).
TimeWindow(t) ==
    LET ceil == CeilDiv(t - StartTime, WindowMinutes)
        windowId == IF ceil * WindowMinutes = t - StartTime THEN ceil + 1 ELSE ceil
        windowStart == (windowId + 0 - 1) * WindowMinutes + StartTime
    IN  [start |-> windowStart, end |-> windowStart + WindowMinutes]

\* The state key of a row: grouping column and window.
KeyOf(q, e) ==
    [g |-> GroupKey(q, e), start |-> TimeWindow(e.timestamp).start,
     end |-> TimeWindow(e.timestamp).end]

\* A predicate that allows the delay a second time, on top of the watermark.
OlderThanWatermark_TwiceLate(end, wm) == end + DelayMinutes <= wm

\* withWatermark: the predicate that drops a late row and evicts a window.
OlderThanWatermark(end, wm) == end <= wm

\* Offsets of batch b that reach the watermark operator of query q.
InputRows(q, b) == {i \in ValidOffsets(b) : Feeds(q, Row(i))}

\* An aggregate that does not drop late rows.
KeptRows_NoLateFilter(q, b) == {i \in InputRows(q, b) : Row(i).timestamp # NullTime}

\* An aggregate whose watermark moves with every row: a row is late when an
\* earlier row of the same batch is far enough ahead of it.
KeptRows_RunningWatermark(q, b) ==
    {i \in InputRows(q, b) :
        /\ Row(i).timestamp # NullTime
        /\ ~OlderThanWatermark(TimeWindow(Row(i).timestamp).end,
               Max({offsetLog[b].wm} \cup
                   {Row(j).timestamp - DelayMinutes :
                       j \in {j \in InputRows(q, b) : j < i}}))}

\* Offsets of batch b that reach the aggregate: the rows that have a time
\* (window() filters on the time column not being null) and are not late.
KeptRows(q, b) ==
    {i \in InputRows(q, b) :
        /\ Row(i).timestamp # NullTime
        /\ ~OlderThanWatermark(TimeWindow(Row(i).timestamp).end, offsetLog[b].wm)}

\* A run that starts from the newest state version, whatever the batch.
BaseVersion_Latest(b) == Max(DOMAIN stateStore)

\* The state version a run of batch b starts from.
BaseVersion(b) == b

\* A merge that lets a batch raise a window's count once, however many of
\* its rows fall in the window.
Merged_OncePerBatch(q, b) ==
    LET base == stateStore[BaseVersion(b)]
        add(k) == IF \E i \in KeptRows(q, b) : KeyOf(q, Row(i)) = k THEN 1 ELSE 0
    IN  [k \in DOMAIN base \cup {KeyOf(q, Row(i)) : i \in KeptRows(q, b)} |->
            (IF k \in DOMAIN base THEN base[k] ELSE 0) + add(k)]

\* The counts after the kept rows of batch b are merged into the base state.
Merged(q, b) ==
    LET base == stateStore[BaseVersion(b)]
        add(k) == Cardinality({i \in KeptRows(q, b) : KeyOf(q, Row(i)) = k})
    IN  [k \in DOMAIN base \cup {KeyOf(q, Row(i)) : i \in KeptRows(q, b)} |->
            (IF k \in DOMAIN base THEN base[k] ELSE 0) + add(k)]

\* Append mode: the windows the watermark of batch b has passed.
Evicted(q, b) ==
    {k \in DOMAIN Merged(q, b) : OlderThanWatermark(k.end, offsetLog[b].wm)}

\* A state that keeps the windows it has emitted.
NextState_KeepEvicted(q, b) == Merged(q, b)

\* The state a run of batch b leaves: the evicted windows are removed.
NextState(q, b) == [k \in DOMAIN Merged(q, b) \ Evicted(q, b) |-> Merged(q, b)[k]]

\* The event time the watermark operator reads from a row: a null reads as 0.
EventTime(e) == IF e.timestamp = NullTime THEN 0 ELSE e.timestamp

\* The largest event time among rows, -1 when there is none (EventTimeStats).
MaxEventTime(rows) == IF rows = {} THEN -1 ELSE Max({EventTime(Row(i)) : i \in rows})

\* The stateful part of one batch of a windowed query: late rows are dropped
\* without a trace, the others are counted, the windows behind the watermark
\* leave the state as output rows, and the state is committed as version b+1.
aggregate ==
    /\ pc = "run"
    /\ query \in Windowed
    /\ LET b == currentBatchId
       IN  /\ stateStore' = (b + 1 :> NextState(query, b)) @@ stateStore
           /\ output' = {[key |-> k, count |-> Merged(query, b)[k]] : k \in Evicted(query, b)}
           /\ lastMax' = MaxEventTime(InputRows(query, b))
           /\ applied' = applied \cup
                 {[o |-> i, k |-> KeyOf(query, Row(i))] : i \in KeptRows(query, b)}
    /\ pc' = "sink"
    /\ UNCHANGED <<topic, query, currentBatchId, offsetLog, commitLog, watermark, lastExec,
                   sinks, faults, sinkOk, incrApplied, logs, counters, etl>>

\* The raw events query: the valid rows of the batch are the output.
select_valid ==
    /\ pc = "run"
    /\ query = "raw_events"
    /\ output' = {[offset |-> i] : i \in ValidOffsets(currentBatchId)}
    /\ pc' = "sink"
    /\ UNCHANGED <<topic, query, currentBatchId, offsetLog, commitLog, watermark, lastExec,
                   lastMax, stateStore, sinks, faults, history, logs, counters, etl>>

\* write_to_snowflake: the sink receives the batch's output rows (outputMode
\* append).
write_to_snowflake ==
    /\ pc = "sink"
    /\ snowflake' = Append(snowflake, [table |-> table_name(query), batch_id |-> currentBatchId,
                                     rows |-> output])
    /\ pc' = "commit"
    /\ UNCHANGED <<topic, query, engine, redis, kafka_out, faults, history, logs, counters, etl>>

\* The Snowflake table after the appends: every row of every delivery is a row
\* of the table (no key columns are given to the sink).
TableRows == UNION {snowflake[j].rows : j \in 1 .. Len(snowflake)}

\* The number of rows of the table that are equal to r.
Copies(r) == Cardinality({j \in 1 .. Len(snowflake) : r \in snowflake[j].rows})

\* ------------------------------------------- customer_data_pipeline.py
CustomerIds == 1 .. MaxCustomers

Emails == {"Ann@x.org", "ann@x.org"}

\* str.lower on the addresses in use.
lower(e) == IF e = "Ann@x.org" THEN "ann@x.org" ELSE e

SeqsUpTo(S, n) == UNION {[1 .. k -> S] : k \in 0 .. n}

\* A row of a source: the columns the pipeline's control depends on and one
\* column it cleans.
SourceRows == [customer_id : CustomerIds, email : Emails]

\* A row of the customers table, with whether the updated_at filter of the
\* extract query takes it.
PostgresRows == [customer_id : CustomerIds, email : {"Ann@x.org"}, updated_recently : BOOLEAN]

\* The files under the prefix: at most one for each modification time.
S3Files == [LastModified : 1 .. 2, body : SeqsUpTo(SourceRows, MaxRows)]
S3Buckets ==
    {B \in SUBSET S3Files : \A f, g \in B : f.LastModified = g.LastModified => f = g}

NoResult == [status |-> "none", error |-> "", records_processed |-> 0]

Stages ==
    <<"extract_from_postgres", "extract_from_salesforce", "extract_from_s3",
      "transform_data", "load_to_snowflake">>

StageIndex(stage) == CHOOSE i \in DOMAIN Stages : Stages[i] = stage

\* A run() that goes on with the next stage when one has raised.
CustomerDataPipeline_run_ContinueOnError(stage, raised, n) ==
    IF StageIndex(stage) = Len(Stages)
    THEN [pc |-> "returned",
          result |-> [status |-> "success", error |-> "", records_processed |-> n]]
    ELSE [pc |-> Stages[StageIndex(stage) + 1], result |-> NoResult]

\* CustomerDataPipeline.run after one stage: where it goes on and what it
\* has returned.  A stage that raises ends the try block: the except clause
\* returns the status failed with the error.  After the last stage run
\* returns the status success with the number of transformed records.
CustomerDataPipeline_run(stage, raised, n) ==
    IF raised
    THEN [pc |-> "returned",
          result |-> [status |-> "failed", error |-> stage, records_processed |-> 0]]
    ELSE IF StageIndex(stage) = Len(Stages)
    THEN [pc |-> "returned",
          result |-> [status |-> "success", error |-> "", records_processed |-> n]]
    ELSE [pc |-> Stages[StageIndex(stage) + 1], result |-> NoResult]

\* The state after construction, with the sources and the warehouse as the
\* run finds them.
CustomerInit ==
    /\ customers \in SeqsUpTo(PostgresRows, MaxRows)
    /\ contacts \in SeqsUpTo(SourceRows, MaxRows)
    /\ s3_bucket \in S3Buckets
    /\ customer_data_staging = <<>>
    /\ customer_data \in {<<>>, (1 :> [email |-> "old@x.org", source |-> "postgres"])}
    /\ cdp_pc = Stages[1]
    /\ postgres_df = <<>> /\ salesforce_df = <<>> /\ s3_df = <<>> /\ transformed_df = <<>>
    /\ cdp_result = NoResult
    /\ cdp_log = <<>>
    /\ cdp_stages = <<>>

\* What every stage does to the control of run(): the stage is entered, and
\* when it raises, the stage logs its error and run logs the failure.
StageDone(stage, raised, message, n) ==
    /\ cdp_stages' = Append(cdp_stages, stage)
    /\ cdp_log' = IF raised THEN cdp_log \o <<message, "Pipeline execution failed">>
                    ELSE cdp_log
    /\ cdp_pc' = CustomerDataPipeline_run(stage, raised, n).pc
    /\ cdp_result' = CustomerDataPipeline_run(stage, raised, n).result

Columns(df) == [i \in DOMAIN df |-> [customer_id |-> df[i].customer_id, email |-> df[i].email]]

extract_from_postgres ==
    /\ cdp_pc = "extract_from_postgres"
    /\ \E raised \in BOOLEAN :
          /\ postgres_df' =
                IF raised THEN postgres_df
                ELSE Columns(SelectSeq(customers, LAMBDA r : r.updated_recently))
          /\ StageDone("extract_from_postgres", raised,
                       "Error extracting data from PostgreSQL", 0)
    /\ UNCHANGED <<stream, sap, cdp_sources, cdp_warehouse, salesforce_df, s3_df, transformed_df>>

extract_from_salesforce ==
    /\ cdp_pc = "extract_from_salesforce"
    /\ \E raised \in BOOLEAN :
          /\ salesforce_df' = IF raised THEN salesforce_df ELSE contacts
          /\ StageDone("extract_from_salesforce", raised,
                       "Error extracting data from Salesforce", 0)
    /\ UNCHANGED <<stream, sap, cdp_sources, cdp_warehouse, postgres_df, s3_df, transformed_df>>

\* The body of the most recently modified file, an empty frame when the
\* listing has no Contents.
LatestBody(bucket) ==
    IF bucket = {} THEN <<>>
    ELSE (CHOOSE f \in bucket : \A g \in bucket : g.LastModified <= f.LastModified).body

extract_from_s3 ==
    /\ cdp_pc = "extract_from_s3"
    /\ \E raised \in BOOLEAN :
          /\ s3_df' = IF raised THEN s3_df ELSE LatestBody(s3_bucket)
          /\ StageDone("extract_from_s3", raised, "Error extracting data from S3", 0)
    /\ UNCHANGED <<stream, sap, cdp_sources, cdp_warehouse, postgres_df, salesforce_df,
                   transformed_df>>

Tagged(df, src) ==
    [i \in DOMAIN df |->
        [customer_id |-> df[i].customer_id, email |-> df[i].email, source |-> src]]

\* drop_duplicates(subset=['customer_id'], keep='last').
RECURSIVE drop_duplicates(_)
drop_duplicates(df) ==
    IF df = <<>> THEN <<>>
    ELSE IF \E j \in DOMAIN Tail(df) : Tail(df)[j].customer_id = Head(df).customer_id
         THEN drop_duplicates(Tail(df))
         ELSE <<Head(df)>> \o drop_duplicates(Tail(df))

\* transform_data: tag the source, concatenate, keep the last row of each
\* customer, lower-case the e-mail.
transform_data(p, sf, s3) ==
    LET combined == Tagged(p, "postgres") \o Tagged(sf, "salesforce") \o Tagged(s3, "s3")
        kept == drop_duplicates(combined)
    IN  [i \in DOMAIN kept |-> [kept[i] EXCEPT !.email = lower(@)]]

Transform ==
    /\ cdp_pc = "transform_data"
    /\ \E raised \in BOOLEAN :
          /\ transformed_df' =
                IF raised THEN transformed_df
                ELSE transform_data(postgres_df, salesforce_df, s3_df)
          /\ StageDone("transform_data", raised, "Error transforming data", 0)
    /\ UNCHANGED <<stream, sap, cdp_sources, cdp_warehouse, postgres_df, salesforce_df, s3_df>>

\* MERGE INTO dwh.customer_data USING the staging table ON customer_id.
Merge(target, staging) ==
    [id \in DOMAIN target \cup {staging[i].customer_id : i \in DOMAIN staging} |->
        IF \E i \in DOMAIN staging : staging[i].customer_id = id
        THEN LET r == staging[CHOOSE i \in DOMAIN staging : staging[i].customer_id = id]
             IN  [email |-> r.email, source |-> r.source]
        ELSE target[id]]

\* load_to_snowflake(df): nothing for an empty frame; otherwise the staging
\* table is replaced and merged into the target, and either call may raise.
CustomerDataPipeline_load_to_snowflake ==
    /\ cdp_pc = "load_to_snowflake"
    /\ IF transformed_df = <<>>
       THEN /\ UNCHANGED cdp_warehouse
            /\ StageDone("load_to_snowflake", FALSE, "", 0)
       ELSE \E calls \in 0 .. 2 :
               /\ customer_data_staging' =
                     IF calls >= 1 THEN transformed_df ELSE customer_data_staging
               /\ customer_data' =
                     IF calls = 2 THEN Merge(customer_data, transformed_df) ELSE customer_data
               /\ StageDone("load_to_snowflake", calls < 2,
                            "Error loading data to Snowflake", Len(transformed_df))
    /\ UNCHANGED <<stream, sap, cdp_sources, cdp_locals>>

NextCustomer ==
    \/ extract_from_postgres
    \/ extract_from_salesforce
    \/ extract_from_s3
    \/ Transform
    \/ CustomerDataPipeline_load_to_snowflake

\* ------------------------------------------- sales_analytics_pipeline.py
ProductIds == 1 .. 2

\* A row of the extract query: one item of one transaction.
SalesRows ==
    [transaction_id : 1 .. MaxTransactions, customer_id : {1}, transaction_date : {1},
     product_id : ProductIds, line_total : {10, 20}]

SalesStages ==
    <<"extract_sales_data", "extract_product_data", "extract_customer_data",
      "transform_and_analyze", "load_to_snowflake">>

SalesStageIndex(stage) == CHOOSE i \in DOMAIN SalesStages : SalesStages[i] = stage

\* A Spark action (load, count, save) on a session that has been stopped
\* stops calls before: it raises when the session is stopped.
RaisesOnStopped(stops) == stops > 0

\* SalesAnalyticsPipeline.run after one stage: a stage that raises ends the
\* try block, the except clause stops Spark and returns the status failed;
\* after the load, run goes on to its own spark.stop().
SalesAnalyticsPipeline_run(stage, raised, stops) ==
    IF raised
    THEN [pc |-> "returned", stops |-> stops + 1,
          result |-> [status |-> "failed", error |-> stage, records_processed |-> 0]]
    ELSE IF SalesStageIndex(stage) = Len(SalesStages)
    THEN [pc |-> "spark_stop", stops |-> stops, result |-> NoResult]
    ELSE [pc |-> SalesStages[SalesStageIndex(stage) + 1], stops |-> stops,
          result |-> NoResult]

\* The state after construction, with the sources as the run finds them.
SalesInit ==
    /\ sales_transactions \in SUBSET SalesRows
    /\ products \in {<<>>, (1 :> "toys"), (1 :> "toys") @@ (2 :> "books")}
    /\ segments \in {<<>>, (1 :> "retail")}
    /\ analytics = <<>>
    /\ sap_pc = SalesStages[1]
    /\ sales_df = {} /\ product_df = <<>> /\ customer_df = <<>> /\ analysis_results = <<>>
    /\ spark_stops = 0 /\ actions_after_stop = 0
    /\ sap_result = NoResult
    /\ sap_log = <<>>
    /\ sap_stages = <<>>

\* What every stage does to the control of run().
SalesStageDone(stage, raised, message) ==
    /\ sap_stages' = Append(sap_stages, stage)
    /\ sap_log' = IF raised THEN sap_log \o <<message, "Pipeline execution failed">>
                    ELSE sap_log
    /\ sap_pc' = SalesAnalyticsPipeline_run(stage, raised, spark_stops).pc
    /\ sap_result' = SalesAnalyticsPipeline_run(stage, raised, spark_stops).result
    /\ spark_stops' = SalesAnalyticsPipeline_run(stage, raised, spark_stops).stops
    /\ UNCHANGED actions_after_stop

extract_sales_data ==
    /\ sap_pc = "extract_sales_data"
    /\ \E raised \in BOOLEAN :
          /\ sales_df' = IF raised THEN sales_df ELSE sales_transactions
          /\ SalesStageDone("extract_sales_data", raised, "Error extracting sales data")
    /\ UNCHANGED <<stream, cdp, sap_sources, analytics, product_df, customer_df,
                   analysis_results>>

extract_product_data ==
    /\ sap_pc = "extract_product_data"
    /\ \E raised \in BOOLEAN :
          /\ product_df' = IF raised THEN product_df ELSE products
          /\ SalesStageDone("extract_product_data", raised, "Error extracting product data")
    /\ UNCHANGED <<stream, cdp, sap_sources, analytics, sales_df, customer_df,
                   analysis_results>>

extract_customer_data ==
    /\ sap_pc = "extract_customer_data"
    /\ \E raised \in BOOLEAN :
          /\ customer_df' = IF raised THEN customer_df ELSE segments
          /\ SalesStageDone("extract_customer_data", raised,
                            "Error extracting customer data")
    /\ UNCHANGED <<stream, cdp, sap_sources, analytics, sales_df, product_df,
                   analysis_results>>

RECURSIVE SumLineTotal(_)
SumLineTotal(rows) ==
    IF rows = {} THEN 0
    ELSE LET r == CHOOSE x \in rows : TRUE IN r.line_total + SumLineTotal(rows \ {r})

\* The left joins: the category and the segment of a sales row, NULL when
\* the product or the customer is not in the warehouse.
Category(r, p) == IF r.product_id \in DOMAIN p THEN p[r.product_id] ELSE NULL
Segment(r, c) == IF r.customer_id \in DOMAIN c THEN c[r.customer_id] ELSE NULL

\* groupBy(key).agg(sum(line_total), count(transaction_id)); key gives the
\* grouping column of every row.
GroupTotals(rows, key) ==
    {[key |-> k, total_sales |-> SumLineTotal({r \in rows : key[r] = k}),
      transaction_count |-> Cardinality({r \in rows : key[r] = k})] :
        k \in {key[r] : r \in rows}}

\* transform_and_analyze: the four aggregates of the enriched sales.
transform_and_analyze(s, p, c) ==
    [sales_by_category |-> GroupTotals(s, [r \in s |-> Category(r, p)]),
     sales_by_segment |-> GroupTotals(s, [r \in s |-> Segment(r, c)]),
     sales_by_date |-> GroupTotals(s, [r \in s |-> r.transaction_date]),
     customer_frequency |-> GroupTotals(s, [r \in s |-> r.customer_id])]

TransformAndAnalyze ==
    /\ sap_pc = "transform_and_analyze"
    /\ \E raised \in BOOLEAN :
          /\ analysis_results' =
                IF raised THEN analysis_results
                ELSE transform_and_analyze(sales_df, product_df, customer_df)
          /\ SalesStageDone("transform_and_analyze", raised,
                            "Error transforming and analyzing sales data")
    /\ UNCHANGED <<stream, cdp, sap_sources, analytics, sales_df, product_df, customer_df>>

\* The tables load_to_snowflake overwrites, in program order.
Tables ==
    <<[result |-> "sales_by_category", dbtable |-> "sales_by_category"],
      [result |-> "sales_by_segment", dbtable |-> "sales_by_segment"],
      [result |-> "sales_by_date", dbtable |-> "sales_by_date"],
      [result |-> "customer_frequency", dbtable |-> "customer_purchase_frequency"]>>

\* The tables after the first n saves.
RECURSIVE Saved(_, _, _)
Saved(tables, results, n) ==
    IF n = 0 THEN tables
    ELSE (Tables[n].dbtable :> results[Tables[n].result]) @@ Saved(tables, results, n - 1)

\* load_to_snowflake(analysis_results): four overwriting saves, any of which
\* may raise.
SalesAnalyticsPipeline_load_to_snowflake ==
    /\ sap_pc = "load_to_snowflake"
    /\ \E saves \in 0 .. Len(Tables) :
          /\ analytics' = Saved(analytics, analysis_results, saves)
          /\ SalesStageDone("load_to_snowflake", saves < Len(Tables),
                            "Error loading analysis results to Snowflake")
    /\ UNCHANGED <<stream, cdp, sap_sources, sap_locals>>

\* run, after the load: self.spark.stop().
spark_stop ==
    /\ sap_pc = "spark_stop"
    /\ spark_stops' = spark_stops + 1
    /\ sap_pc' = "return"
    /\ UNCHANGED <<stream, cdp, sap_sources, analytics, sap_locals, actions_after_stop,
                   sap_result, sap_log, sap_stages>>

\* run, building the dictionary it returns: records_processed is
\* sales_df.count(), a Spark action.  When it raises, the except clause of
\* run logs, stops Spark and returns the status failed.
return_result ==
    /\ sap_pc = "return"
    /\ IF RaisesOnStopped(spark_stops)
       THEN /\ actions_after_stop' = actions_after_stop + 1
            /\ sap_log' = Append(sap_log, "Pipeline execution failed")
            /\ spark_stops' = spark_stops + 1
            /\ sap_result' =
                  [status |-> "failed", error |-> "count", records_processed |-> 0]
       ELSE /\ sap_result' = [status |-> "success", error |-> "",
                              records_processed |-> Cardinality(sales_df)]
            /\ UNCHANGED <<actions_after_stop, sap_log, spark_stops>>
    /\ sap_pc' = "returned"
    /\ UNCHANGED <<stream, cdp, sap_sources, analytics, sap_locals, sap_stages>>

NextSales ==
    \/ extract_sales_data
    \/ extract_product_data
    \/ extract_customer_data
    \/ TransformAndAnalyze
    \/ SalesAnalyticsPipeline_load_to_snowflake
    \/ spark_stop
    \/ return_result

\* ------------------------------------------------------------- the spec
Next ==
    \/ Produce
    \/ constructNextBatch
    \/ aggregate
    \/ select_valid
    \/ write_to_snowflake
    \/ update_redis_metrics
    \/ forward_to_kafka
    \/ commitBatch
    \/ commitFails
    \/ Crash
    \/ Restart

Spec == Init /\ [][Next]_vars

\* One run of the customer pipeline.
InitCustomer == StreamOff /\ CustomerInit /\ SalesOff
SpecCustomer == InitCustomer /\ [][NextCustomer]_vars

\* One run of the sales pipeline.
InitSales == StreamOff /\ CustomerOff /\ SalesInit
SpecSales == InitSales /\ [][NextSales]_vars

\* ====================================================== the claims
\* What the claims are measured against, written from the claims' own words
\* and not from the operators above.
IsRejected(e) == e.user_id = NULL \/ e.event_type = NULL

\* The value's event time is there but cannot be parsed.
Unparseable(e) == e.timestamp = BadTime

\* Accepted by the router; an accepted value may lack an event time.
Accepted(e) == ~IsRejected(e) /\ ~Unparseable(e)

HasTime(e) == e.timestamp >= 0

FloorStart(t) == (t \div WindowMinutes) * WindowMinutes

FeedsMetric(q, e) == q = "active_users" \/ (q = "page_views" /\ e.event_type = "page_view")

GroupOf(q, e) == IF q = "active_users" THEN e.event_type ELSE e.page

\* The batch an input offset was read in.
BatchOf(i) == CHOOSE b \in DOMAIN offsetLog : i \in BatchOffsets(b)

Consumed == {i \in 1 .. Len(topic) : \E b \in DOMAIN offsetLog : i \in BatchOffsets(b)}

\* Rows of the followed metric, accepted by the filter.
MetricRows ==
    {i \in Consumed : Accepted(topic[i]) /\ HasTime(topic[i]) /\ FeedsMetric(query, topic[i])}

\* The row's window was still open when its batch ran.
OnTime(i) == FloorStart(topic[i].timestamp) + WindowMinutes > offsetLog[BatchOf(i)].wm

Deliveries == Range(snowflake)

CommittedWatermark == IF DOMAIN commitLog = {} THEN 0 ELSE commitLog[Latest(commitLog)]

CommittedEnd == IF DOMAIN commitLog = {} THEN 0 ELSE offsetLog[Latest(commitLog)].end

RECURSIVE SumCounts(_, _)
SumCounts(B, t) ==
    IF B = {} THEN 0
    ELSE LET b == CHOOSE x \in B : TRUE
         IN  Cardinality({i \in BatchOffsets(b) :
                             Accepted(topic[i]) /\ topic[i].event_type = t})
             + SumCounts(B \ {b}, t)

\* C1: the checkpoint never stands at or past a batch that some sink has not
\* successfully applied: every committed batch of the cache/republish query
\* was applied without error by the cache sink and by the republish sink.
C1_CommitOnlyAfterAllSinks ==
    query = "redis_kafka" =>
        \A b \in DOMAIN commitLog : b \in sinkOk["redis"] /\ b \in sinkOk["kafka"]

\* C2: every cache counter holds each batch's increment exactly once, however
\* often the batch was delivered: its value is the sum, over the batches
\* whose increment reached it, of that batch's count.
C2_IncrementExactlyOnce ==
    \A t \in DOMAIN redis.count :
        redis.count[t] = SumCounts({b \in DOMAIN offsetLog : <<b, t>> \in incrApplied}, t)

\* C3: the watermark never decreases: no step of a running query lowers the
\* tracker, a restart restores at least the committed watermark, and the
\* committed watermark itself never decreases; a batch whose largest event
\* time is behind the maximum seen leaves the watermark where it is.
C3_WatermarkMonotone ==
    [][/\ (pc # "down" /\ pc' # "down") => watermark' >= watermark
       /\ (pc = "down" /\ pc' # "down") => watermark' >= CommittedWatermark
       /\ CommittedWatermark' >= CommittedWatermark]_vars

\* A batch of out-of-order rows was committed and the watermark stayed.
C3_Witness ==
    /\ query \in Windowed
    /\ pc = "idle"
    /\ lastMax # -1
    /\ watermark > 0
    /\ lastMax - DelayMinutes < watermark

\* C4: every row counted by a windowed aggregate is counted in exactly one
\* window, the window [floor(t/W)*W, floor(t/W)*W + W) of its event time t; a
\* time on a boundary k*W belongs to the window that starts there; and every
\* accepted on-time row of a finished batch is counted.
C4_ExactlyOneTumblingWindow ==
    /\ \A a \in applied :
          /\ a.k.start = FloorStart(topic[a.o].timestamp)
          /\ a.k.end = a.k.start + WindowMinutes
          /\ a.k.start <= topic[a.o].timestamp /\ topic[a.o].timestamp < a.k.end
          /\ \A a2 \in applied : a2.o = a.o => a2 = a
    /\ query \in Windowed =>
          \A i \in MetricRows :
              (OnTime(i) /\ BatchOf(i) \in DOMAIN commitLog) => \E a \in applied : a.o = i

\* A row on a window boundary and a row at the last instant of the window
\* before it were both counted, in different windows.
C4_Witness ==
    \E a, a2 \in applied :
        /\ topic[a.o].timestamp = WindowMinutes /\ a.k.start = WindowMinutes
        /\ topic[a2.o].timestamp = WindowMinutes - 1 /\ a2.k.start = 0

\* C5: running a batch whose id has already been applied to the state store
\* (its result, state version batch id + 1, exists) changes no window's
\* aggregate in any state version.
C5_ReplayLeavesStateUnchanged ==
    [][(/\ query \in Windowed
        /\ pc = "run" /\ pc' = "sink"
        /\ currentBatchId + 1 \in DOMAIN stateStore) => stateStore' = stateStore]_vars

\* A batch with counted rows was delivered, the process died before the
\* commit, and the batch has been aggregated again.
C5_Witness ==
    /\ query \in Windowed
    /\ pc = "sink"
    /\ \E d \in Deliveries : d.batch_id = currentBatchId
    /\ \E a \in applied : a.o \in BatchOffsets(currentBatchId)
    /\ stateStore[currentBatchId + 1] # stateStore[currentBatchId]

LateRows == {i \in MetricRows : ~OnTime(i) /\ BatchOf(i) \in DOMAIN commitLog}

RejectedLeftOut ==
    /\ \A a \in applied : ~IsRejected(topic[a.o])
    /\ \A j \in 1 .. Len(kafka_out) : ~IsRejected(topic[kafka_out[j].offset])
    /\ query = "raw_events" =>
          \A d \in Deliveries : \A r \in d.rows : ~IsRejected(topic[r.offset])
    /\ NULL \notin redis.users
    /\ NULL \notin DOMAIN redis.count

\* A batch that holds rows, all of them rejected.
OnlyRejected(b) == BatchOffsets(b) # {} /\ \A i \in BatchOffsets(b) : IsRejected(topic[i])

RejectedRows == {i \in Consumed : IsRejected(topic[i]) /\ BatchOf(i) \in DOMAIN commitLog}

MetricRowsUpTo(b) == {i \in MetricRows : BatchOf(i) <= b}

ClosedKeys ==
    {[g |-> GroupOf(query, topic[i]), start |-> FloorStart(topic[i].timestamp),
      end |-> FloorStart(topic[i].timestamp) + WindowMinutes] :
        i \in {i \in MetricRows :
                  /\ OnTime(i)
                  /\ \E b \in DOMAIN commitLog :
                        /\ BatchOf(i) < b
                        /\ FloorStart(topic[i].timestamp) + WindowMinutes <= offsetLog[b].wm}}

FullCount(k) ==
    Cardinality({i \in MetricRows :
                    /\ OnTime(i)
                    /\ GroupOf(query, topic[i]) = k.g
                    /\ FloorStart(topic[i].timestamp) = k.start})

\* C12: crash recovery loses and duplicates nothing: once the planned batches
\* are committed, the durable store holds what the same batches leave without
\* a crash, one row per closed window with the count of its accepted rows, and
\* nothing else, wherever a crash and restart were placed.
C12_CrashRecoveryExact ==
    (query \in Windowed /\ pc = "idle") =>
        /\ \A k \in ClosedKeys : Copies([key |-> k, count |-> FullCount(k)]) = 1
        /\ \A r \in TableRows : r.key \in ClosedKeys /\ r.count = FullCount(r.key)

\* C13: the durable store holds at most one row per key (metric, group key,
\* window start, window end) after any number of deliveries of that row.
C13_AtMostOneRowPerKey ==
    query \in Windowed =>
        \A r \in TableRows :
            Cardinality({j \in 1 .. Len(snowflake) :
                            \E r2 \in snowflake[j].rows : r2.key = r.key}) <= 1

\* The calls of sink s for batch b, as positions of the attempts history.
AttemptsOf(s, b) == {j \in 1 .. Len(attempts) : attempts[j].sink = s /\ attempts[j].batch_id = b}

\* C14: for every batch, delivery is attempted at every configured sink: a
\* batch is committed only after each sink of its query was called for it, and
\* in the cache/republish query the republish sink is called for the batch
\* right after the cache sink, whether the cache sink failed or not.
C14_AllSinksAttempted ==
    /\ query = "redis_kafka" =>
          /\ \A b \in DOMAIN commitLog : AttemptsOf("redis", b) # {} /\ AttemptsOf("kafka", b) # {}
          /\ pc = "commit" =>
                /\ Len(attempts) >= 2
                /\ attempts[Len(attempts) - 1].sink = "redis"
                /\ attempts[Len(attempts) - 1].batch_id = currentBatchId
                /\ attempts[Len(attempts)].sink = "kafka"
                /\ attempts[Len(attempts)].batch_id = currentBatchId
    /\ query # "redis_kafka" =>
          \A b \in DOMAIN commitLog : \E d \in Deliveries : d.batch_id = b

\* The cache sink failed for a batch with rows and the republish sink was
\* called for the same batch and sent them.
C14_Witness ==
    /\ query = "redis_kafka"
    /\ pc = "commit"
    /\ ~attempts[Len(attempts) - 1].ok
    /\ attempts[Len(attempts)].ok
    /\ \E j \in 1 .. Len(kafka_out) : kafka_out[j].offset \in BatchOffsets(currentBatchId)

\* C15: a failing sink delivery is retried, and when the attempts are used
\* up the batch stays uncommitted and the failure is reported: every failed
\* call of a sink for a batch that is committed was followed by a successful
\* call of that sink for that batch, and every failed call was reported.
C15_RetriedOrHeldBack ==
    query = "redis_kafka" =>
        /\ \A j \in 1 .. Len(attempts) :
              (~attempts[j].ok /\ attempts[j].batch_id \in DOMAIN commitLog) =>
                 \E j2 \in AttemptsOf(attempts[j].sink, attempts[j].batch_id) :
                    j2 > j /\ attempts[j2].ok
        /\ Len(error_log) = Cardinality({j \in 1 .. Len(attempts) : ~attempts[j].ok})

\* Every sink of the followed query has received batch b in full.
FullyReceived(b) ==
    IF query = "redis_kafka"
    THEN /\ \E j \in AttemptsOf("redis", b) : attempts[j].ok
         /\ \E j \in AttemptsOf("kafka", b) : attempts[j].ok
    ELSE \E d \in Deliveries : d.batch_id = b

\* C16: a shutdown abandons the batch in flight with the checkpoint unchanged
\* (or finds it committed), and it never leaves the checkpoint at a batch that
\* some sink has not fully received.
C16_ShutdownLeavesCompleteCheckpoint ==
    [][(pc # "down" /\ pc' = "down") =>
          /\ commitLog' = commitLog
          /\ offsetLog' = offsetLog
          /\ \A b \in DOMAIN commitLog' : FullyReceived(b)']_vars

\* The last message on the error channel is that of a failed commit.
CommitJustFailed ==
    Len(error_log) > 0 /\ error_log[Len(error_log)] = "Error in stream processing"

\* C17: when the commit of batch b fails the loop stops: the failure leaves
\* the loop down with batch b planned and uncommitted, and while the loop is
\* down nothing is planned, processed, committed or delivered to any sink;
\* the restart takes up the uncommitted batch again.
C17_CommitFailureStopsLoop ==
    [][/\ (error_log' # error_log /\ CommitJustFailed') =>
             /\ pc' = "down"
             /\ currentBatchId' = currentBatchId
             /\ currentBatchId \in DOMAIN offsetLog'
             /\ currentBatchId \notin DOMAIN commitLog'
       /\ pc = "down" =>
             /\ UNCHANGED <<offsetLog, commitLog, stateStore, snowflake, redis, kafka_out>>
             /\ (pc' # "down" /\ Latest(offsetLog) > Latest(commitLog)) =>
                   (pc' = "run" /\ currentBatchId' = Latest(commitLog) + 1)]_vars

\* The commit of a batch has failed, the loop is down, and a row that arrived
\* since waits in the topic.
C17_Witness ==
    /\ pc = "down"
    /\ CommitJustFailed
    /\ currentBatchId \in DOMAIN offsetLog
    /\ currentBatchId \notin DOMAIN commitLog
    /\ Len(topic) > offsetLog[currentBatchId].end

\* What a value with an unparseable event time must stay out of: every
\* window aggregate, and the validated events handed to the durable store,
\* the cache and the republish channel.
UnparseableLeftOut ==
    /\ \A a \in applied : ~Unparseable(topic[a.o])
    /\ \A j \in 1 .. Len(kafka_out) : ~Unparseable(topic[kafka_out[j].offset])
    /\ query = "raw_events" =>
          \A d \in Deliveries : \A r \in d.rows : ~Unparseable(topic[r.offset])
    /\ \A t \in DOMAIN redis.count :
          redis.count[t] <= Cardinality({j \in 1 .. Len(attempts) : attempts[j].sink = "redis"})
                             * Cardinality({i \in 1 .. Len(topic) :
                                              Accepted(topic[i]) /\ topic[i].event_type = t})

\* A batch that holds values, each with an unparseable event time.
OnlyUnparseable(b) == BatchOffsets(b) # {} /\ \A i \in BatchOffsets(b) : Unparseable(topic[i])

UnparseableRows == {i \in Consumed : Unparseable(topic[i]) /\ BatchOf(i) \in DOMAIN commitLog}

FeedsByType(m, t) ==
    \/ m = "active_users"
    \/ m = "page_views" /\ t = "page_view"
    \/ m = "product_views" /\ t = "product_view"
    \/ m = "add_to_cart" /\ t = "add_to_cart"

\* A batch that holds accepted values, none of a type that feeds metric m.
FeedsNothing(m, b) ==
    /\ BatchOffsets(b) # {}
    /\ \A i \in BatchOffsets(b) : Accepted(topic[i]) /\ ~FeedsByType(m, topic[i].event_type)

\* C19: an accepted event changes only the aggregates of the metrics its
\* event_type feeds: each defined metric takes in exactly the accepted events
\* of its type (page_views the page views, product_views the product views,
\* add_to_cart the add-to-cart events, active_users all of them; an event of
\* type other feeds none of the three), every event counted by the running
\* aggregate is of a type that feeds it, and a batch of events of other types
\* leaves its watermark, its windows and their counts as they were.
C19_OnlyFedMetricsChange ==
    [][/\ \A m \in Metrics : \A i \in 1 .. Len(topic') :
             Accepted(topic'[i]) =>
                (Feeds(m, from_json(topic'[i])) <=> FeedsByType(m, topic'[i].event_type))
       /\ query \in Windowed =>
             /\ \A a \in applied' : FeedsByType(query, topic'[a.o].event_type)
             /\ (pc \in {"run", "sink", "commit"} /\ FeedsNothing(query, currentBatchId)) =>
                   LET base == stateStore[currentBatchId]
                   IN  /\ pc' # "down" => watermark' = watermark
                       /\ \A v \in DOMAIN stateStore' :
                             v = currentBatchId + 1 =>
                                \A k \in DOMAIN stateStore'[v] :
                                    k \in DOMAIN base /\ stateStore'[v][k] = base[k]]_vars

\* In the page_views query a product view and an event of type other were
\* committed and changed nothing, and a page view was counted.
C19_Witness ==
    /\ query = "page_views"
    /\ \E i, j \in Consumed :
          /\ BatchOf(i) \in DOMAIN commitLog /\ BatchOf(j) \in DOMAIN commitLog
          /\ Accepted(topic[i]) /\ topic[i].event_type = "product_view"
          /\ Accepted(topic[j]) /\ topic[j].event_type = "other"
    /\ \E a \in applied : topic[a.o].event_type = "page_view"

\* The text of a batch id, as a consumer reads it.
BatchIdText == <<"0", "1", "2", "3", "4", "5", "6", "7", "8", "9">>

\* C20: every payload on the republish channel is an accepted event of some
\* batch and carries the id of the batch that contained it and a processing
\* time; every complete delivery of a batch appends the same (event, batch
\* id) pairs, one for each accepted event of the batch, so no event is on
\* the channel under two batch ids.
C20_RepublishTaggedWithBatch ==
    [][/\ \A j \in 1 .. Len(kafka_out') :
             /\ \E b \in DOMAIN offsetLog' :
                   /\ b < Len(BatchIdText)
                   /\ kafka_out'[j].batch_id = BatchIdText[b + 1]
                   /\ kafka_out'[j].offset \in (BatchStart(b) + 1 .. offsetLog[b].end)'
             /\ Accepted(topic'[kafka_out'[j].offset])
             /\ \E t \in 1 .. now' : kafka_out'[j].processed_at = isoformat(t)
             /\ \A k \in 1 .. Len(kafka_out') :
                   kafka_out'[k].offset = kafka_out'[j].offset =>
                      kafka_out'[k].batch_id = kafka_out'[j].batch_id
       /\ (Len(attempts') > Len(attempts)
               /\ attempts'[Len(attempts')].sink = "kafka" /\ attempts'[Len(attempts')].ok) =>
             {<<kafka_out'[j].offset, kafka_out'[j].batch_id>> :
                  j \in Len(kafka_out) + 1 .. Len(kafka_out')}
               = {<<i, BatchIdText[currentBatchId + 1]>> :
                     i \in {i \in BatchOffsets(currentBatchId) : Accepted(topic[i])}}]_vars

\* A batch was delivered to the republish channel twice, before and after a
\* process death: two payloads carry the same event and batch id and
\* different processing times.
C20_Witness ==
    /\ crashes > 0
    /\ \E j, k \in 1 .. Len(kafka_out) :
          /\ j < k
          /\ kafka_out[j].offset = kafka_out[k].offset
          /\ kafka_out[j].batch_id = kafka_out[k].batch_id
          /\ kafka_out[j].processed_at # kafka_out[k].processed_at
          /\ Cardinality(AttemptsOf("kafka", BatchOf(kafka_out[j].offset))) = 2

\* The watermark a partition of its own would have before batch b: the
\* largest event time of the partition's rows in earlier batches, less the
\* lateness.
PartitionWatermark(p, b) ==
    Max({StartTime} \cup {topic[j].timestamp - DelayMinutes :
                             j \in {j \in MetricRows : BatchOf(j) < b /\ PartitionOf(j) = p}})

\* The same over the rows of every partition.
QueryWatermark(b) ==
    Max({StartTime} \cup {topic[j].timestamp - DelayMinutes :
                             j \in {j \in MetricRows : BatchOf(j) < b}})

WasApplied(i) == \E a \in applied : a.o = i

\* The table each query owns.
OwnTable ==
    [raw_events |-> "user_activity_events", active_users |-> "active_users_by_window",
     page_views |-> "page_views_by_window"]

RowKey(i) ==
    [g |-> GroupOf(query, topic[i]), start |-> FloorStart(topic[i].timestamp),
     end |-> FloorStart(topic[i].timestamp) + WindowMinutes]

\* The on-time rows of batch b that fall in the window of row i.
SameWindowRows(b, i) ==
    {j \in MetricRows : BatchOf(j) = b /\ OnTime(j) /\ RowKey(j) = RowKey(i)}

\* C22: a run of a batch raises the count of every window by the number of
\* the batch's accepted on-time rows that fall in it: k rows of one batch in
\* one window raise its count by k, none of them is suppressed because an
\* earlier row of the same batch was already counted.
C22_EveryRowOfBatchCounts ==
    [][(query \in Windowed /\ pc = "run" /\ pc' = "sink") =>
          \A i \in BatchOffsets(currentBatchId) \cap MetricRows :
              OnTime(i) =>
                 LET k == RowKey(i)
                     before == IF k \in DOMAIN stateStore[currentBatchId]
                               THEN stateStore[currentBatchId][k] ELSE 0
                 IN  /\ k \in DOMAIN stateStore'[currentBatchId + 1]
                     /\ stateStore'[currentBatchId + 1][k]
                           = before + Cardinality(SameWindowRows(currentBatchId, i))]_vars

\* A window that held one row has been raised to three by a batch with two
\* rows in it.
C22_Witness ==
    /\ query \in Windowed
    /\ pc = "sink"
    /\ \E i \in BatchOffsets(currentBatchId) \cap MetricRows :
          /\ OnTime(i)
          /\ Cardinality(SameWindowRows(currentBatchId, i)) = 2
          /\ RowKey(i) \in DOMAIN stateStore[currentBatchId]
          /\ stateStore[currentBatchId][RowKey(i)] = 1
          /\ stateStore[currentBatchId + 1][RowKey(i)] = 3

\* The events of batch b as a bag: how often each value occurs, whatever the
\* order.
BatchBag(b) ==
    [e \in {topic[i] : i \in BatchOffsets(b)} |->
        Cardinality({i \in BatchOffsets(b) : topic[i] = e})]

\* The values of a bag that the followed metric takes in.
MetricValues(bag) ==
    {e \in DOMAIN bag : Accepted(e) /\ HasTime(e) /\ FeedsMetric(query, e)}

ValueKey(e) ==
    [g |-> GroupOf(query, e), start |-> FloorStart(e.timestamp),
     end |-> FloorStart(e.timestamp) + WindowMinutes]

RECURSIVE BagCount(_, _)
BagCount(bag, S) ==
    IF S = {} THEN 0
    ELSE LET e == CHOOSE x \in S : TRUE IN bag[e] + BagCount(bag, S \ {e})

\* What the bag of batch b adds to window k under the watermark wm the batch
\* started with.
AddedByBag(bag, wm, k) ==
    BagCount(bag, {e \in MetricValues(bag) : ValueKey(e) = k /\ k.end > wm})

\* C23: the outcome of a batch is a function of the bag of its events, of
\* the state and of the watermark the batch started with: the counts, the
\* closed windows, the (absent) late and rejected counters and the largest
\* event time that moves the watermark do not depend on the order inside
\* the batch.  The watermark of a running query moves only at the commit of
\* a batch, so a row is never left out because of a larger event time
\* earlier in its own batch.
C23_OutcomeIndependentOfOrder ==
    [][/\ (query \in Windowed /\ pc = "run" /\ pc' = "sink") =>
             LET b == currentBatchId
                 bag == BatchBag(b)
                 wm == offsetLog[b].wm
                 old(k) == IF k \in DOMAIN stateStore[b] THEN stateStore[b][k] ELSE 0
                 keys == DOMAIN stateStore[b] \cup {ValueKey(e) : e \in MetricValues(bag)}
                 new(k) == old(k) + AddedByBag(bag, wm, k)
             IN  /\ \A k \in keys :
                       \/ k.end > wm /\ new(k) > 0 /\ k \in DOMAIN stateStore'[b + 1]
                            /\ stateStore'[b + 1][k] = new(k)
                       \/ k.end <= wm /\ old(k) > 0 /\ k \notin DOMAIN stateStore'[b + 1]
                            /\ [key |-> k, count |-> old(k)] \in output'
                       \/ k.end <= wm /\ old(k) = 0 /\ k \notin DOMAIN stateStore'[b + 1]
                 /\ DOMAIN stateStore'[b + 1] \subseteq keys
                 /\ \A r \in output' : r.key \in keys
                 /\ lastMax' = Max({-1} \cup {e.timestamp : e \in MetricValues(bag)}
                                      \cup {0 : e \in {e \in DOMAIN bag :
                                                 /\ Accepted(e) /\ ~HasTime(e)
                                                 /\ FeedsMetric(query, e)}})
                 /\ late_dropped' = late_dropped /\ rejected' = rejected
                 /\ \A i, j \in BatchOffsets(b) \cap MetricRows :
                       (j < i /\ OnTime(i)
                            /\ topic[j].timestamp - DelayMinutes
                                  >= FloorStart(topic[i].timestamp) + WindowMinutes)
                          => [o |-> i, k |-> RowKey(i)] \in applied'
       /\ (watermark' # watermark /\ pc # "down" /\ pc' # "down") =>
             (pc = "commit" /\ pc' = "idle")]_vars

\* A batch held a row far ahead and, after it, a row whose window that row
\* would have closed; the later row has been counted.
C23_Witness ==
    /\ query \in Windowed
    /\ pc = "sink"
    /\ \E i, j \in BatchOffsets(currentBatchId) \cap MetricRows :
          /\ j < i
          /\ OnTime(i)
          /\ topic[j].timestamp - DelayMinutes
                >= FloorStart(topic[i].timestamp) + WindowMinutes
          /\ WasApplied(i)
          /\ RowKey(i) \in DOMAIN stateStore[currentBatchId + 1]

\* The accepted events of batch b.
GoodRows(b) == {i \in BatchOffsets(b) : Accepted(topic[i])}

LastAttemptOk(att, sink) ==
    Len(att) > 0 /\ att[Len(att)].sink = sink /\ att[Len(att)].ok

\* C24: rejected and late events never abort a batch.  Whatever else the
\* batch holds, the raw query hands every accepted event of it to its sink,
\* a windowed query counts every accepted on-time event of it, a successful
\* republish sends every accepted event of it; a running batch ends early
\* only by a process death or a failed commit write, never by an event; and
\* a batch whose sinks have returned can always be committed.
C24_BadEventsNeverAbort ==
    /\ [](pc = "commit" => ENABLED commitBatch)
    /\ [][LET b == currentBatchId
          IN  /\ (pc = "run" /\ pc' = "sink" /\ query = "raw_events") =>
                    output' = {[offset |-> i] : i \in GoodRows(b)}
              /\ (pc = "run" /\ pc' = "sink" /\ query \in Windowed) =>
                    \A i \in GoodRows(b) \cap MetricRows :
                        OnTime(i) => [o |-> i, k |-> RowKey(i)] \in applied'
              /\ (pc = "fwd" /\ pc' = "commit" /\ LastAttemptOk(attempts', "kafka")) =>
                    {kafka_out'[j].offset : j \in Len(kafka_out) + 1 .. Len(kafka_out')}
                       = GoodRows(b)
              /\ (pc = "run" /\ pc' = "fwd" /\ LastAttemptOk(attempts', "redis")) =>
                    \A i \in GoodRows(b) :
                        /\ topic[i].user_id \in redis'.users
                        /\ topic[i].event_type \in DOMAIN redis'.count
              /\ (pc \in {"run", "sink", "fwd", "commit"} /\ pc' = "down") =>
                    (crashes' = crashes + 1 \/ failures' = failures + 1)
              /\ (pc = "run" /\ crashes' = crashes /\ failures' = failures) =>
                    pc' \in {"sink", "fwd"}]_vars

\* A batch with a rejected event beside a counted one, and a later batch
\* with nothing but a late event, have both been committed.
C24_Witness ==
    /\ query \in Windowed
    /\ \E b1, b2 \in DOMAIN commitLog :
          /\ \E i \in BatchOffsets(b1) : ~Accepted(topic[i])
          /\ \E i \in BatchOffsets(b1) \cap MetricRows : WasApplied(i)
          /\ \E i \in BatchOffsets(b2) \cap MetricRows : ~OnTime(i) /\ ~WasApplied(i)

\* Sinks of the cache/republish query that have never taken batch b without
\* an error.
NeverSucceeded(b) == {s \in {"redis", "kafka"} : b \notin sinkOk[s]}

\* C25: the checkpoint moves past a batch that some sink never applied only
\* when the batch has been dead-lettered after the give-up threshold, with
\* an alert: every committed batch with a sink that never succeeded is in
\* the dead-letter record and was reported, and was tried more than once.
C25_SkippedOnlyWhenDeadLettered ==
    query = "redis_kafka" =>
        \A b \in DOMAIN commitLog :
            \A s \in NeverSucceeded(b) :
                /\ b \in dead_letter
                /\ error_log # <<>>
                /\ Cardinality(AttemptsOf(s, b)) > 1

\* The Redis keys that hold something.
WrittenKeys ==
    {<<"count", t>> : t \in DOMAIN redis.count}
        \cup (IF redis.users # {} THEN {<<"active_users", NULL>>} ELSE {})
        \cup (IF DOMAIN redis.pages # {} THEN {<<"popular_pages", NULL>>} ELSE {})
        \cup (IF DOMAIN redis.products # {} THEN {<<"popular_products", NULL>>} ELSE {})

\* C26: every key the cache sink has written has a bounded time to live:
\* each counter, the active-users set and each ranking sorted set that holds
\* something has an expiry, of at most a day.
C26_EveryKeyHasTtl ==
    \A k \in WrittenKeys : k \in DOMAIN redis.ttl /\ redis.ttl[k] <= CountTtl

Get(f, k) == IF k \in DOMAIN f THEN f[k] ELSE 0

\* The four groups of writes of one cache update of batch b, each told by
\* what it leaves in the keys r2 when it started from the keys r1.
CountersWritten(r1, r2, b) ==
    \A t \in {topic[i].event_type : i \in GoodRows(b)} :
        /\ Get(r2.count, t)
              = Get(r1.count, t)
                  + Cardinality({i \in GoodRows(b) : topic[i].event_type = t})
        /\ <<"count", t>> \in DOMAIN r2.ttl /\ r2.ttl[<<"count", t>>] = CountTtl

UsersWritten(r1, r2, b) ==
    GoodRows(b) # {} =>
        /\ r2.users = r1.users \cup {topic[i].user_id : i \in GoodRows(b)}
        /\ <<"active_users", NULL>> \in DOMAIN r2.ttl
        /\ r2.ttl[<<"active_users", NULL>>] = UsersTtl

PagesWritten(r1, r2, b) ==
    \A i \in GoodRows(b) :
        topic[i].event_type = "page_view" =>
            Get(r2.pages, topic[i].page)
               = Get(r1.pages, topic[i].page)
                   + Cardinality({j \in GoodRows(b) : /\ topic[j].event_type = "page_view"
                                                        /\ topic[j].page = topic[i].page})

ProductsWritten(r1, r2, b) ==
    \A i \in GoodRows(b) :
        topic[i].event_type = "product_view" =>
            Get(r2.products, topic[i].product_id)
               = Get(r1.products, topic[i].product_id)
                   + Cardinality({j \in GoodRows(b) :
                                     /\ topic[j].event_type = "product_view"
                                     /\ topic[j].product_id = topic[i].product_id})

\* C27: one cache update writes in the order counters, active-users set,
\* popular pages, popular products, and takes nothing back: a later group
\* has been written only when every earlier group was written in full, and
\* nothing a key held is lost.  When a call fails, the writes before it
\* stay, the last write of the batch at least is missing, the error is
\* logged and not raised, and process_batch goes on to the republish; when
\* none fails, all four groups are written.
C27_FixedOrderNoRollback ==
    [][(pc = "run" /\ query = "redis_kafka" /\ Len(attempts') > Len(attempts)) =>
          LET b == currentBatchId
              ok == attempts'[Len(attempts')].ok
          IN  /\ attempts'[Len(attempts')].sink = "redis"
              /\ redis'.products # redis.products => PagesWritten(redis, redis', b)
              /\ (redis'.products # redis.products \/ redis'.pages # redis.pages) =>
                    UsersWritten(redis, redis', b)
              /\ (redis'.products # redis.products \/ redis'.pages # redis.pages
                      \/ redis'.users # redis.users
                      \/ (<<"active_users", NULL>> \in DOMAIN redis'.ttl
                             /\ <<"active_users", NULL>> \notin DOMAIN redis.ttl)) =>
                    CountersWritten(redis, redis', b)
              /\ \A t \in DOMAIN redis.count :
                    t \in DOMAIN redis'.count /\ redis'.count[t] >= redis.count[t]
              /\ redis.users \subseteq redis'.users
              /\ \A k \in DOMAIN redis.pages :
                    k \in DOMAIN redis'.pages /\ redis'.pages[k] >= redis.pages[k]
              /\ \A k \in DOMAIN redis.products :
                    k \in DOMAIN redis'.products /\ redis'.products[k] >= redis.products[k]
              /\ DOMAIN redis.ttl \subseteq DOMAIN redis'.ttl
              /\ ok => /\ CountersWritten(redis, redis', b) /\ UsersWritten(redis, redis', b)
                        /\ PagesWritten(redis, redis', b) /\ ProductsWritten(redis, redis', b)
                        /\ error_log' = error_log
              /\ ~ok => /\ GoodRows(b) # {} =>
                              ~(PagesWritten(redis, redis', b)
                                   /\ ProductsWritten(redis, redis', b))
                         /\ error_log' = Append(error_log, "Error updating Redis metrics")
              /\ pc' = "fwd"
              /\ crashes' = crashes
              /\ currentBatchId' = currentBatchId]_vars

\* A cache update failed after the counter and the active-users set of a
\* page view were written and before its page ranking: the first two hold
\* the batch, the ranking does not, the error is logged and the republish is
\* next.
C27_Witness ==
    /\ query = "redis_kafka"
    /\ pc = "fwd"
    /\ Len(attempts) = 1 /\ attempts[1].sink = "redis" /\ ~attempts[1].ok
    /\ \E i \in GoodRows(currentBatchId) : topic[i].event_type = "page_view"
    /\ CountersWritten(EmptyRedis, redis, currentBatchId)
    /\ UsersWritten(EmptyRedis, redis, currentBatchId)
    /\ DOMAIN redis.pages = {}
    /\ error_log = <<"Error updating Redis metrics">>

\* C28: run starts exactly four queries: the raw events, the active users,
\* the page views and the cache/republish query.  The product_views and
\* add_to_cart aggregates of process_events are not among them: no state and
\* no sink ever holds a window keyed by a product, and every delivery goes
\* to one of the three tables, with rows of that table's kind.
C28_FourQueriesTwoAggregatesUnused ==
    /\ Cardinality(Queries) = 4
    /\ query \in {"raw_events", "active_users", "page_views", "redis_kafka"}
    /\ Metrics \ Queries = {"product_views", "add_to_cart"}
    /\ \A v \in DOMAIN stateStore : \A k \in DOMAIN stateStore[v] :
          /\ query \in {"active_users", "page_views"}
          /\ k.g # "p1"
          /\ k.g = (IF query = "page_views" THEN "/home" ELSE k.g)
    /\ \A d \in Deliveries :
          /\ d.table \in {"user_activity_events", "active_users_by_window",
                           "page_views_by_window"}
          /\ \A r \in d.rows :
                CASE d.table = "user_activity_events" -> DOMAIN r = {"offset"}
                  [] d.table = "active_users_by_window" ->
                        r.key.g \in {"page_view", "product_view", "other"}
                  [] OTHER -> r.key.g = "/home"

\* Product views were read and committed by the active users query, which
\* has delivered a closed window; the only trace of them is their count by
\* event type.
C28_Witness ==
    /\ query = "active_users"
    /\ \E i \in Consumed :
          /\ Accepted(topic[i]) /\ topic[i].event_type = "product_view"
          /\ topic[i].product_id = "p1"
          /\ BatchOf(i) \in DOMAIN commitLog
          /\ WasApplied(i)
    /\ \E d \in Deliveries : d.rows # {}

\* The stages of the customer pipeline in the order run() is to call them.
StageOrder ==
    <<"extract_from_postgres", "extract_from_salesforce", "extract_from_s3",
      "transform_data", "load_to_snowflake">>

\* C29: CustomerDataPipeline.run calls its stages in the order extract
\* postgres, extract salesforce, extract s3, transform, load.  When a stage
\* has raised, no later stage runs and run returns (it does not raise) the
\* status failed with that stage's error; it returns success only when all
\* five stages ran and none raised, with the number of transformed records;
\* and a load of an empty transformed frame writes nothing to the warehouse.
C29_StagesInOrderFailureStopsRun ==
    [][/\ Len(cdp_stages') <= Len(StageOrder)
       /\ \A i \in DOMAIN cdp_stages' : cdp_stages'[i] = StageOrder[i]
       /\ cdp_log # <<>> => cdp_stages' = cdp_stages
       /\ cdp_log' # <<>> =>
             /\ cdp_pc' = "returned"
             /\ cdp_result'.status = "failed"
             /\ cdp_result'.error = cdp_stages'[Len(cdp_stages')]
       /\ cdp_result'.status = "success" =>
             /\ cdp_stages' = StageOrder
             /\ cdp_log' = <<>>
             /\ cdp_result'.records_processed = Len(transformed_df')
       /\ (cdp_log' = <<>> /\ cdp_stages' = StageOrder) => cdp_result'.status = "success"
       /\ (cdp_pc' = "returned") = (cdp_result'.status \in {"success", "failed"})
       /\ (cdp_pc = "load_to_snowflake" /\ transformed_df = <<>>) =>
             /\ customer_data_staging' = customer_data_staging
             /\ customer_data' = customer_data
       /\ cdp_pc # "load_to_snowflake" =>
             /\ customer_data_staging' = customer_data_staging
             /\ customer_data' = customer_data]_vars

\* The transform raised after three extracts that found rows: the load was
\* never called, the warehouse is as it was and run has returned failed.
C29_Witness ==
    /\ cdp_stages = SubSeq(StageOrder, 1, 4)
    /\ postgres_df # <<>> /\ salesforce_df # <<>> /\ s3_df # <<>>
    /\ cdp_result.status = "failed" /\ cdp_result.error = "transform_data"
    /\ cdp_pc = "returned"
    /\ customer_data_staging = <<>>

\* The error messages of the stages of the sales pipeline.
SalesStageErrors ==
    {"Error extracting sales data", "Error extracting product data",
     "Error extracting customer data", "Error transforming and analyzing sales data",
     "Error loading analysis results to Snowflake"}

\* Extract, transform and load have all run and none of them raised.
AllStagesSucceeded ==
    /\ Len(sap_stages) = 5
    /\ \A i \in DOMAIN sap_log : sap_log[i] \notin SalesStageErrors

\* C30: on every path through SalesAnalyticsPipeline.run the Spark session
\* is stopped exactly once and no Spark action is called after the stop;
\* when extract, transform and load have all succeeded, run returns the
\* status success.
C30_SparkStoppedOnceThenSuccess ==
    /\ spark_stops <= 1
    /\ sap_pc = "returned" => spark_stops = 1
    /\ actions_after_stop = 0
    /\ (sap_pc = "returned" /\ AllStagesSucceeded) => sap_result.status = "success"

====
